------------------------------ MODULE Spec2Model ------------------------------
(***************************************************************************)
(* Model of the bargaining chatbot API (src/app.py): the BargainBot class  *)
(* (step counting, latest-user-message lookup, price extraction, response  *)
(* generation around the external text generator) and the HTTP handlers    *)
(* bargain_chat, get_initial_message, home and health_check.               *)
(*                                                                         *)
(* Encodings.  A Python dict is a TLA+ function whose domain is the set of *)
(* keys present.  A JSON value that may be null is tagged: [t |-> "null"], *)
(* [t |-> "dict", d |-> ...], [t |-> "num", n |-> ...], [t |-> "str"].      *)
(* An optional result (None or a value) is [some |-> FALSE] or             *)
(* [some |-> TRUE, val |-> v].  Timestamps are strings, modelled as        *)
(* sequences of character codes compared lexicographically, as Python      *)
(* compares str.  Text is a sequence of one-character strings.  Money is   *)
(* counted in cents, percentages reported in hundredths of a percent.      *)
(***************************************************************************)
EXTENDS Integers, Sequences, FiniteSets, TLC

VARIABLES
    history,     \* a conversation history handed to the BargainBot helpers
    step,        \* get_negotiation_step(history)
    latest,      \* get_latest_user_message(history)
    text,        \* a response text handed to extract_price_from_response
    extracted,   \* extract_price_from_response(text)
    max_discount_percentage,  \* bargain_bot.max_discount_percentage
    negotiation_steps,        \* bargain_bot.negotiation_steps
    pc,          \* per worker: where the request it handles stands
    request,     \* per worker: the request being handled
    locals,      \* per worker: the local variables of generate_response
    calls,       \* per worker: the calls made to the external generator
    trace,       \* per worker: the orchestrator states passed through
    response     \* per worker: the HTTP response, once the handler returned

helperVars == <<history, step, latest, text, extracted>>
configVars == <<max_discount_percentage, negotiation_steps>>
workerVars == <<pc, request, locals, calls, trace, response>>
vars == <<helperVars, configVars, workerVars>>

----------------------------------------------------------------------------
\* Bounds of the model.
MaxStepLen == 5     \* longest history in SpecStep
MaxLatestLen == 3   \* longest history in SpecLatest
MaxTextLen == 6     \* longest text in SpecText
MaxReqHist == 2     \* longest conversation_history of a request in Spec
MaxConcHist == 1    \* longest conversation_history of a request in SpecConc

----------------------------------------------------------------------------
\* Python values.

None == [some |-> FALSE]
Some(v) == [some |-> TRUE, val |-> v]

\* dict.get(key, default)
Get(d, key, default) == IF key \in DOMAIN d THEN d[key] ELSE default

Min(a, b) == IF a <= b THEN a ELSE b

\* str < str: lexicographic order on sequences of character codes.
RECURSIVE StrLess(_, _)
StrLess(a, b) ==
    IF b = <<>> THEN FALSE
    ELSE IF a = <<>> THEN TRUE
    ELSE IF a[1] < b[1] THEN TRUE
    ELSE IF a[1] > b[1] THEN FALSE
    ELSE StrLess(Tail(a), Tail(b))

Front(s) == SubSeq(s, 1, Len(s) - 1)
Last(s) == s[Len(s)]

----------------------------------------------------------------------------
\* BargainBot.get_negotiation_step

\* msg.get('role') == 'user'
IsUser(msg) == "role" \in DOMAIN msg /\ msg["role"] = "user"

\* [msg for msg in conversation_history if msg.get('role') == 'user']
UserMessages(h) == SelectSeq(h, IsUser)

get_negotiation_step(conversation_history) ==
    IF conversation_history = <<>>
    THEN 1
    ELSE Min(Len(UserMessages(conversation_history)), 4)

----------------------------------------------------------------------------
\* BargainBot.get_latest_user_message

\* key=lambda x: x.get('timestamp', '')
SortKey(x) == Get(x, "timestamp", <<>>)

\* One step of a stable ascending sort: x, which followed every element of
\* the sorted sequence s in the input, goes after the elements whose key is
\* not greater than its own.
RECURSIVE InsertStable(_, _)
InsertStable(s, x) ==
    IF s = <<>> THEN <<x>>
    ELSE IF StrLess(SortKey(x), SortKey(Last(s)))
         THEN Append(InsertStable(Front(s), x), Last(s))
         ELSE Append(s, x)

\* Mutant of sorted: the history is scanned in the caller's order.
sorted_Unsorted(h) == h

\* sorted(conversation_history, key=...): Python's sort is stable.
RECURSIVE sorted(_)
sorted(h) ==
    IF h = <<>> THEN <<>> ELSE InsertStable(sorted(Front(h)), Last(h))

\* Mutant of ScanReversed: the role of the message is not looked at.
ScanReversed_AnyRole(s) ==
    IF s = <<>> THEN None ELSE Some(Get(Last(s), "message", ""))

\* for msg in reversed(s): if msg.get('role') == 'user': return msg.get('message', '')
RECURSIVE ScanReversed(_)
ScanReversed(s) ==
    IF s = <<>> THEN None
    ELSE IF IsUser(Last(s)) THEN Some(Get(Last(s), "message", ""))
    ELSE ScanReversed(Front(s))

get_latest_user_message(conversation_history) ==
    IF conversation_history = <<>>
    THEN None
    ELSE ScanReversed(sorted(conversation_history))

----------------------------------------------------------------------------
\* BargainBot.extract_price_from_response

IsDigit(c) == c \in {"0", "4"}
DigitVal(c) == IF c = "4" THEN 4 ELSE 0

\* int() of a digit string
RECURSIVE DigitsVal(_)
DigitsVal(s) ==
    IF s = <<>> THEN 0 ELSE 10 * DigitsVal(Front(s)) + DigitVal(Last(s))

\* \d+ at position i: the index of the last digit of the greedy run
RECURSIVE DigitRunEnd(_, _)
DigitRunEnd(t, i) ==
    IF i + 1 <= Len(t) /\ IsDigit(t[i + 1]) THEN DigitRunEnd(t, i + 1) ELSE i

\* (?:\.\d{2})? after the digit run ending at e
HasFraction(t, e) ==
    /\ e + 3 <= Len(t)
    /\ t[e + 1] = "."
    /\ IsDigit(t[e + 2])
    /\ IsDigit(t[e + 3])

\* The end of the match of \$(\d+(?:\.\d{2})?) beginning at i, or 0 if none.
MatchEnd(t, i) ==
    IF t[i] = "$" /\ i + 1 <= Len(t) /\ IsDigit(t[i + 1])
    THEN LET e == DigitRunEnd(t, i + 1)
         IN  IF HasFraction(t, e) THEN e + 3 ELSE e
    ELSE 0

\* re.findall(price_pattern, response_text): the captured groups of the
\* non-overlapping matches, scanning left to right from position i.
RECURSIVE findall(_, _)
findall(t, i) ==
    IF i > Len(t) THEN <<>>
    ELSE LET e == MatchEnd(t, i)
         IN  IF e = 0 THEN findall(t, i + 1)
             ELSE <<SubSeq(t, i + 1, e)>> \o findall(t, e + 1)

\* float(group), in cents: the group is digits, optionally "." and 2 digits.
float(g) ==
    IF Len(g) >= 3 /\ g[Len(g) - 2] = "."
    THEN 100 * DigitsVal(SubSeq(g, 1, Len(g) - 3))
         + DigitsVal(SubSeq(g, Len(g) - 1, Len(g)))
    ELSE 100 * DigitsVal(g)

\* Mutant of PickMatch: the first price mentioned is returned.
PickMatch_First(matches) == matches[1]

\* return float(matches[-1])
PickMatch(matches) == Last(matches)

extract_price_from_response(response_text) ==
    LET matches == findall(response_text, 1)
    IN  IF matches # <<>> THEN Some(float(PickMatch(matches))) ELSE None

----------------------------------------------------------------------------
\* JSON values of a request body.

Null == [t |-> "null"]
Dict(d) == [t |-> "dict", d |-> d]
Num(n) == [t |-> "num", n |-> n]
Str == [t |-> "str"]

\* Languages and language replies are sequences of words, quotes and blanks.
English == <<"English">>

\* str.lower()
LowerWord(w) ==
    IF w = "English" THEN "english"
    ELSE IF w = "Spanish" THEN "spanish"
    ELSE w
lower(s) == [i \in DOMAIN s |-> LowerWord(s[i])]

\* Python truthiness of an optional string, of an optional number
TruthyStr(o) == o.some /\ o.val # ""
TruthyNum(o) == o.some /\ o.val # 0

\* round(num / den, 0) for den > 0: Python rounds a tie to the even neighbour.
RoundDiv(num, den) ==
    LET q == num \div den
        r == num - q * den
    IN  IF 2 * r < den THEN q
        ELSE IF 2 * r > den THEN q + 1
        ELSE IF q % 2 = 0 THEN q ELSE q + 1

----------------------------------------------------------------------------
\* BargainBot: construction and pricing policy.

BargainBot_init ==
    /\ max_discount_percentage = 10
    /\ negotiation_steps =
          [n \in 1..4 |->
              CASE n = 1 -> [discount |-> 2, description |-> "Initial small discount"]
                [] n = 2 -> [discount |-> 4, description |-> "Second offer - showing flexibility"]
                [] n = 3 -> [discount |-> 7, description |-> "Third offer - getting serious"]
                [] n = 4 -> [discount |-> 10, description |-> "Final offer - maximum discount"]]

\* original_price * (1 - max_discount_percentage / 100): dollars in, cents out
calculate_minimum_price(original_price) ==
    original_price * (100 - max_discount_percentage)

\* The values create_system_prompt writes into the prompt.  original_price
\* is the JSON value of product_details['price']; a price that is no number
\* raises TypeError in calculate_minimum_price.
create_system_prompt(price, negotiation_step, user_language) ==
    IF price.t # "num" THEN [raised |-> "TypeError"]
    ELSE LET step_info == IF negotiation_step \in DOMAIN negotiation_steps
                          THEN negotiation_steps[negotiation_step]
                          ELSE negotiation_steps[4]
             suggested_discount == step_info.discount
         IN  [raised |-> "",
              negotiation_step |-> negotiation_step,
              minimum_price |-> calculate_minimum_price(price.n),
              suggested_discount |-> suggested_discount,
              suggested_price |-> price.n * (100 - suggested_discount),
              max_discount_percentage |-> max_discount_percentage,
              language_instruction |-> lower(user_language) # <<"english">>,
              user_language |-> user_language]

\* format_conversation_history reads msg['role'] and msg['message'] of every
\* message: a message without one of them raises KeyError.
format_conversation_history_raises(h) ==
    \E i \in 1..Len(h) : ~({"role", "message"} \subseteq DOMAIN h[i])

\* detect_language: response.text.strip(), the quotes removed, strip() again;
\* "English" when nothing is left, and when the call failed.
IsBlank(w) == w \in {" ", "\n"}
IsQuote(w) == w \in {"\"", "'"}
NotQuote(w) == ~IsQuote(w)

RECURSIVE lstrip(_)
lstrip(s) == IF s # <<>> /\ IsBlank(s[1]) THEN lstrip(Tail(s)) ELSE s
RECURSIVE rstrip(_)
rstrip(s) == IF s # <<>> /\ IsBlank(Last(s)) THEN rstrip(Front(s)) ELSE s
strip(s) == rstrip(lstrip(s))

detect_language(outcome) ==
    IF outcome.ok
    THEN LET detected_language == strip(SelectSeq(strip(outcome.text), NotQuote))
         IN  IF detected_language # <<>> THEN detected_language ELSE English
    ELSE English

\* The tuples generate_response returns.
Result(bot_response, offered_price, negotiation_step, detected_language) ==
    [bot_response |-> bot_response,
     offered_price |-> offered_price,
     negotiation_step |-> negotiation_step,
     detected_language |-> detected_language]

\* line 177
GreetingResult == Result([kind |-> "greeting"], None, 1, English)

\* line 208: the apology carries the text of the exception
generate_response_except(e) ==
    Result([kind |-> "apology", error |-> e], None, 1, English)

\* lines 200-205
generate_response_return(bot_response, negotiation_step, detected_language) ==
    Result([kind |-> "generated", text |-> bot_response],
           extract_price_from_response(bot_response),
           negotiation_step, detected_language)

----------------------------------------------------------------------------
\* The HTTP handlers.

ErrorResponse(http, error) == [http |-> http, status |-> "error", error |-> error]

\* The validation both POST handlers begin with.  'product_details' not in
\* data, and 'name' not in product_details, raise TypeError on None, which
\* the handler's except clause answers with 500.
Validate(data, missing) ==
    IF data.t = "null"
    THEN ErrorResponse(500, "TypeError")
    ELSE IF "product_details" \notin DOMAIN data.d
    THEN ErrorResponse(400, missing)
    ELSE LET product_details == data.d["product_details"]
         IN  IF product_details.t = "null"
             THEN ErrorResponse(500, "TypeError")
             ELSE IF \/ "name" \notin DOMAIN product_details.d
                     \/ "price" \notin DOMAIN product_details.d
             THEN ErrorResponse(400, "Product details must include name and price")
             ELSE [http |-> 0]

\* round(actual_discount_percentage, 2) if offered_price else 0, in
\* hundredths of a percent; original_price in dollars, offered_price in cents
discount_percentage(original_price, offered_price) ==
    IF TruthyNum(offered_price)
    THEN RoundDiv((original_price * 100 - offered_price.val) * 100, original_price)
    ELSE 0

\* bargain_chat, lines 267-305: the response built from what
\* generate_response returned.
BargainResponse(product_details, r) ==
    LET price == product_details.d["price"]
    IN  IF price.t # "num"
        THEN ErrorResponse(500, "TypeError")
        ELSE IF TruthyNum(r.offered_price) /\ price.n = 0
        THEN ErrorResponse(500, "ZeroDivisionError")
        ELSE [http |-> 200,
              status |-> "success",
              bot_response |-> r.bot_response,
              detected_language |-> r.detected_language,
              response_language |-> r.detected_language,
              step |-> r.negotiation_step,
              max_steps |-> 4,
              offered_price |-> r.offered_price,
              discount_percentage |-> discount_percentage(price.n, r.offered_price),
              is_final_offer |-> r.negotiation_step >= 4,
              name |-> product_details.d["name"],
              original_price |-> price.n,
              minimum_possible_price |-> calculate_minimum_price(price.n),
              max_discount_percentage |-> max_discount_percentage]

\* get_initial_message, lines 334-342
price_context(product_price) ==
    IF product_price < 50 THEN "affordable"
    ELSE IF product_price < 200 THEN "reasonably priced"
    ELSE IF product_price < 500 THEN "premium"
    ELSE "high-end"

\* get_initial_message, lines 373-394
InitialResponse(product_details, initial_message, user_language) ==
    LET price == product_details.d["price"].n
    IN  [http |-> 200,
         status |-> "success",
         initial_message |-> initial_message,
         response_language |-> user_language,
         name |-> product_details.d["name"],
         original_price |-> price,
         potential_savings |-> price * 100 - calculate_minimum_price(price),
         max_discount_percentage |-> max_discount_percentage,
         total_steps |-> 4]

\* The fixed English opening message, lines 368 and 371
EnglishInitialMessage(product_details) ==
    [kind |-> "english",
     product_name |-> product_details.d["name"],
     product_price |-> product_details.d["price"].n,
     price_context |-> price_context(product_details.d["price"].n)]
----------------------------------------------------------------------------
\* Inputs of the helper specifications.

Roles == {"user", "assistant"}
Timestamps == {<<1>>, <<1, 0>>, <<2>>}
Texts == {"a", "b"}

\* Messages that differ in role only, a message without a role included.
StepMsgs ==
    {[role |-> r, message |-> "a", timestamp |-> <<1>>] : r \in Roles}
    \cup {[message |-> "a", timestamp |-> <<1>>]}

\* Messages with and without a timestamp, with and without a text.
LatestMsgs ==
    {[role |-> r, message |-> m, timestamp |-> ts] :
        r \in Roles, m \in Texts, ts \in Timestamps}
    \cup {[role |-> r, message |-> m] : r \in Roles, m \in Texts}
    \cup {[role |-> r, timestamp |-> ts] : r \in Roles, ts \in Timestamps}
    \cup {[role |-> r] : r \in Roles}

Chars == {"$", "0", "4", ".", "x"}


----------------------------------------------------------------------------
\* The workers that handle requests, one request each at a time.

Workers == {"w1", "w2"}
MainWorker == "w1"

NoRequest == [endpoint |-> "none"]
NoResponse == [http |-> 0]
NoLocals ==
    [user_message |-> "", detected_language |-> <<>>, negotiation_step |-> 0,
     prompt |-> [raised |-> ""], user_language |-> <<>>]

Init ==
    /\ history = <<>>
    /\ step = get_negotiation_step(<<>>)
    /\ latest = get_latest_user_message(<<>>)
    /\ text = <<>>
    /\ extracted = extract_price_from_response(<<>>)
    /\ BargainBot_init
    /\ pc = [w \in Workers |-> "idle"]
    /\ request = [w \in Workers |-> NoRequest]
    /\ locals = [w \in Workers |-> NoLocals]
    /\ calls = [w \in Workers |-> <<>>]
    /\ trace = [w \in Workers |-> <<>>]
    /\ response = [w \in Workers |-> NoResponse]

\* The handler of worker w returns resp.
Return(w, resp) ==
    /\ pc' = [pc EXCEPT ![w] = "done"]
    /\ response' = [response EXCEPT ![w] = resp]

ProductDetailsOf(w) == request[w].data.d["product_details"]
HistoryOf(w) == Get(request[w].data.d, "conversation_history", <<>>)

\* POST /api/bargain: bargain_chat up to the first call of the generator,
\* that is through generate_response's lines 172-177.
BargainChat(w, data) ==
    /\ pc[w] = "idle"
    /\ request' = [request EXCEPT ![w] = [endpoint |-> "bargain", data |-> data]]
    /\ LET invalid == Validate(data, "Missing required field: product_details")
       IN  IF invalid.http # 0
           THEN /\ Return(w, invalid)
                /\ UNCHANGED <<locals, trace>>
           ELSE LET product_details == data.d["product_details"]
                    conversation_history == Get(data.d, "conversation_history", <<>>)
                    user_message == get_latest_user_message(conversation_history)
                IN  IF ~TruthyStr(user_message)
                    THEN /\ Return(w, BargainResponse(product_details, GreetingResult))
                         /\ trace' = [trace EXCEPT ![w] = <<"greeting_response">>]
                         /\ UNCHANGED locals
                    ELSE /\ pc' = [pc EXCEPT ![w] = "detect"]
                         /\ locals' = [locals EXCEPT ![w].user_message = user_message.val]
                         /\ UNCHANGED <<trace, response>>
    /\ UNCHANGED <<calls, helperVars, configVars>>

\* generate_response, lines 180-197: the language-detection call returns or
\* fails, then the step is derived and the prompt composed.
DetectLanguage(w, outcome) ==
    /\ pc[w] = "detect"
    /\ LET product_details == ProductDetailsOf(w)
           detected_language == detect_language(outcome)
           negotiation_step == get_negotiation_step(HistoryOf(w))
           system_prompt == create_system_prompt(product_details.d["price"],
                                                 negotiation_step, detected_language)
           raised == IF system_prompt.raised # "" THEN system_prompt.raised
                     ELSE IF format_conversation_history_raises(HistoryOf(w))
                     THEN "KeyError"
                     ELSE ""
       IN  /\ calls' = [calls EXCEPT ![w] =
                 Append(@, [kind |-> "detect", outcome |-> outcome,
                            prompt |-> [user_message |-> locals[w].user_message]])]
           /\ IF raised # ""
              THEN /\ Return(w, BargainResponse(product_details,
                                                generate_response_except(raised)))
                   /\ trace' = [trace EXCEPT ![w] =
                         @ \o <<"detect_language", "derive_state", "compose_prompt",
                                "apology">>]
                   /\ UNCHANGED locals
              ELSE /\ pc' = [pc EXCEPT ![w] = "generate"]
                   /\ locals' = [locals EXCEPT
                         ![w].detected_language = detected_language,
                         ![w].negotiation_step = negotiation_step,
                         ![w].prompt = system_prompt]
                   /\ trace' = [trace EXCEPT ![w] =
                         @ \o <<"detect_language", "derive_state", "compose_prompt">>]
                   /\ UNCHANGED response
    /\ UNCHANGED <<request, helperVars, configVars>>

\* generate_response, lines 199-205, and bargain_chat to its end: the
\* generation call returned bot_response.
GenerateReturned(w, outcome) ==
    /\ Return(w, BargainResponse(ProductDetailsOf(w),
                  generate_response_return(outcome.text,
                                           locals[w].negotiation_step,
                                           locals[w].detected_language)))
    /\ trace' = [trace EXCEPT ![w] =
          @ \o <<"invoke_generator", "extract_price", "assemble_result">>]

\* Mutant of GenerateFailed: generate_response does not catch the error,
\* which reaches the except clause of bargain_chat.
GenerateFailed_Propagates(w, outcome) ==
    /\ Return(w, ErrorResponse(500, outcome.error))
    /\ trace' = [trace EXCEPT ![w] = @ \o <<"invoke_generator">>]

\* Mutant of GenerateFailed: the failed call is made again.
GenerateFailed_Retries(w, outcome) ==
    /\ pc' = [pc EXCEPT ![w] = "generate"]
    /\ trace' = [trace EXCEPT ![w] = @ \o <<"invoke_generator">>]
    /\ UNCHANGED response

\* generate_response, lines 207-208, and bargain_chat to its end: the
\* generation call raised.
GenerateFailed(w, outcome) ==
    /\ Return(w, BargainResponse(ProductDetailsOf(w),
                                 generate_response_except(outcome.error)))
    /\ trace' = [trace EXCEPT ![w] = @ \o <<"invoke_generator", "apology">>]

GenerateContent(w, outcome) ==
    /\ pc[w] = "generate"
    /\ calls' = [calls EXCEPT ![w] =
          Append(@, [kind |-> "generate", outcome |-> outcome,
                     prompt |-> locals[w].prompt])]
    /\ IF outcome.ok THEN GenerateReturned(w, outcome) ELSE GenerateFailed(w, outcome)
    /\ UNCHANGED <<request, locals, helperVars, configVars>>

\* POST /api/bargain/initial: get_initial_message up to the call of the
\* generator, or to its end when the language is English.
GetInitialMessage(w, data) ==
    /\ pc[w] = "idle"
    /\ request' = [request EXCEPT ![w] = [endpoint |-> "initial", data |-> data]]
    /\ LET invalid == Validate(data, "Missing product_details")
       IN  IF invalid.http # 0
           THEN /\ Return(w, invalid)
                /\ UNCHANGED locals
           ELSE LET product_details == data.d["product_details"]
                    user_language == Get(data.d, "language", English)
                IN  IF product_details.d["price"].t # "num"
                    THEN /\ Return(w, ErrorResponse(500, "TypeError"))
                         /\ UNCHANGED locals
                    ELSE IF lower(user_language) # <<"english">>
                    THEN /\ pc' = [pc EXCEPT ![w] = "initial_generate"]
                         /\ locals' = [locals EXCEPT ![w].user_language = user_language]
                         /\ UNCHANGED response
                    ELSE /\ Return(w, InitialResponse(product_details,
                                          EnglishInitialMessage(product_details),
                                          user_language))
                         /\ UNCHANGED locals
    /\ UNCHANGED <<calls, trace, helperVars, configVars>>

\* get_initial_message, lines 363-400: the generator returned the opening
\* message, or failed and the English message is used.
InitialGenerate(w, outcome) ==
    /\ pc[w] = "initial_generate"
    /\ calls' = [calls EXCEPT ![w] =
          Append(@, [kind |-> "initial", outcome |-> outcome,
                     prompt |-> [user_language |-> locals[w].user_language]])]
    /\ LET product_details == ProductDetailsOf(w)
       IN  IF outcome.ok
           THEN Return(w, InitialResponse(product_details,
                            [kind |-> "generated", text |-> strip(outcome.text)],
                            locals[w].user_language))
           ELSE Return(w, InitialResponse(product_details,
                            EnglishInitialMessage(product_details), English))
    /\ UNCHANGED <<request, locals, trace, helperVars, configVars>>

\* Mutant of Home: the handler writes the bot's maximum discount.
Home_WritesConfig(w) ==
    /\ pc[w] = "idle"
    /\ request' = [request EXCEPT ![w] = [endpoint |-> "home"]]
    /\ Return(w, [http |-> 200, status |-> "running",
                  max_discount |-> max_discount_percentage])
    /\ max_discount_percentage' = 100 - max_discount_percentage
    /\ UNCHANGED <<locals, calls, trace, helperVars, negotiation_steps>>

\* GET /
Home(w) ==
    /\ pc[w] = "idle"
    /\ request' = [request EXCEPT ![w] = [endpoint |-> "home"]]
    /\ Return(w, [http |-> 200, status |-> "running",
                  max_discount |-> max_discount_percentage])
    /\ UNCHANGED <<locals, calls, trace, helperVars, configVars>>

\* GET /health
HealthCheck(w) ==
    /\ pc[w] = "idle"
    /\ request' = [request EXCEPT ![w] = [endpoint |-> "health"]]
    /\ Return(w, [http |-> 200, status |-> "healthy",
                  max_discount |-> max_discount_percentage])
    /\ UNCHANGED <<locals, calls, trace, helperVars, configVars>>

\* The response is sent and the worker takes the next request.
Close(w) ==
    /\ pc[w] = "done"
    /\ pc' = [pc EXCEPT ![w] = "idle"]
    /\ request' = [request EXCEPT ![w] = NoRequest]
    /\ locals' = [locals EXCEPT ![w] = NoLocals]
    /\ calls' = [calls EXCEPT ![w] = <<>>]
    /\ trace' = [trace EXCEPT ![w] = <<>>]
    /\ response' = [response EXCEPT ![w] = NoResponse]
    /\ UNCHANGED <<helperVars, configVars>>

----------------------------------------------------------------------------
\* Request bodies and generator outcomes.

\* The dicts with the keys K, each key k holding val[k].
DictOf(K, val) == [k \in K |-> val[k]]

Prices == {Num(0), Num(3), Num(100), Str}

ProductDetails ==
    {Null} \cup
    {Dict(DictOf(K, [name |-> "Widget", price |-> p])) :
        K \in SUBSET {"name", "price"}, p \in Prices}

\* Messages of a request: with an empty and a non-empty text, two
\* timestamps, and one message each lacking its role and its text.
ReqMsgs ==
    {[role |-> r, message |-> m, timestamp |-> ts] :
        r \in Roles, m \in {"", "hola"}, ts \in {<<1>>, <<2>>}}
    \cup {[message |-> "hola", timestamp |-> <<1>>],
          [role |-> "assistant", timestamp |-> <<1>>]}

ConcMsgs == {[role |-> r, message |-> "hola", timestamp |-> <<1>>] : r \in Roles}

Histories(msgs, n) == UNION {[1..k -> msgs] : k \in 0..n}

Bodies(details, histories, languages) ==
    {Null} \cup
    {Dict(DictOf(K, [product_details |-> pd, conversation_history |-> h,
                     language |-> l])) :
        K \in SUBSET {"product_details", "conversation_history", "language"},
        pd \in details, h \in histories, l \in languages}

BargainBodies ==
    {b \in Bodies(ProductDetails, Histories(ReqMsgs, MaxReqHist), {English}) :
        b.t = "dict" => "language" \notin DOMAIN b.d}

InitialBodies ==
    {b \in Bodies(ProductDetails, {<<>>}, {<<"english">>, <<"Spanish">>}) :
        b.t = "dict" => "conversation_history" \notin DOMAIN b.d}

ConcDetails ==
    {Dict([name |-> "Widget", price |-> Num(100)]), Dict([name |-> "Widget"])}

ConcBargainBodies ==
    {b \in Bodies(ConcDetails, Histories(ConcMsgs, MaxConcHist), {English}) :
        b.t = "dict" /\ DOMAIN b.d = {"product_details", "conversation_history"}}

ConcInitialBodies ==
    {b \in Bodies(ConcDetails, {<<>>}, {<<"Spanish">>}) :
        b.t = "dict" /\ DOMAIN b.d = {"product_details", "language"}}

Failed(e) == [ok |-> FALSE, error |-> e]
Returned(t) == [ok |-> TRUE, text |-> t]

GeneratorErrors == {"quota exceeded", "timed out"}

DetectOutcomes ==
    {Failed("timed out")} \cup
    {Returned(t) : t \in {<<"Spanish">>, <<"\"", "English", "\"", "\n">>, <<" ">>}}

GenerateOutcomes ==
    {Failed(e) : e \in GeneratorErrors} \cup
    {Returned(t) : t \in {<<"x">>, <<"$", "0">>, <<"$", "4", ".", "4", "0">>,
                          <<"$", "4", "0", "0", "x", "$", "4">>}}

InitialOutcomes == {Failed("timed out"), Returned(<<" ", "Hola", "\n">>)}

----------------------------------------------------------------------------
\* The server: one worker handling one request after another.

Next ==
    \/ \E data \in BargainBodies : BargainChat(MainWorker, data)
    \/ \E outcome \in DetectOutcomes : DetectLanguage(MainWorker, outcome)
    \/ \E outcome \in GenerateOutcomes : GenerateContent(MainWorker, outcome)
    \/ \E data \in InitialBodies : GetInitialMessage(MainWorker, data)
    \/ \E outcome \in InitialOutcomes : InitialGenerate(MainWorker, outcome)
    \/ Home(MainWorker)
    \/ HealthCheck(MainWorker)
    \/ Close(MainWorker)

Spec == Init /\ [][Next]_vars

\* The server with concurrent requests: every worker handles a request, the
\* steps of the workers interleaved at the calls of the external generator.
NextConc ==
    \E w \in Workers :
        \/ \E data \in ConcBargainBodies : BargainChat(w, data)
        \/ \E outcome \in DetectOutcomes : DetectLanguage(w, outcome)
        \/ \E outcome \in GenerateOutcomes : GenerateContent(w, outcome)
        \/ \E data \in ConcInitialBodies : GetInitialMessage(w, data)
        \/ \E outcome \in InitialOutcomes : InitialGenerate(w, outcome)
        \/ Home(w)
        \/ HealthCheck(w)
        \/ Close(w)

SpecConc == Init /\ [][NextConc]_vars

----------------------------------------------------------------------------
\* The helper specifications: a history, or a text, grows by one element and
\* the helpers are applied to it.

AppendMessage(m) ==
    /\ history' = Append(history, m)
    /\ step' = get_negotiation_step(history')
    /\ latest' = get_latest_user_message(history')
    /\ UNCHANGED <<text, extracted, configVars, workerVars>>

AppendChar(c) ==
    /\ text' = Append(text, c)
    /\ extracted' = extract_price_from_response(text')
    /\ UNCHANGED <<history, step, latest, configVars, workerVars>>

NextStep == \E m \in StepMsgs : Len(history) < MaxStepLen /\ AppendMessage(m)
NextLatest == \E m \in LatestMsgs : Len(history) < MaxLatestLen /\ AppendMessage(m)
NextText == \E c \in Chars : Len(text) < MaxTextLen /\ AppendChar(c)

SpecStep == Init /\ [][NextStep]_vars
SpecLatest == Init /\ [][NextLatest]_vars
SpecText == Init /\ [][NextText]_vars

----------------------------------------------------------------------------
\* Properties of the helpers.

UserCount(h) == Cardinality({i \in 1..Len(h) : IsUser(h[i])})

\* C1: for every non-empty history get_negotiation_step returns
\* min(number of user messages, 4), and the step is at least 1 always, even
\* when the history holds no user message.
C1_StepIsMinAndAtLeastOne ==
    history # <<>> =>
        /\ step = Min(UserCount(history), 4)
        /\ step >= 1

\* C9: along a history that only grows by appending messages, starting from
\* the empty history, the step never decreases and stays within 1..4.
C9_StepMonotoneInRange ==
    [][step' >= step /\ step \in 1..4 /\ step' \in 1..4]_vars

\* The user messages of the history that come last in a stable ascending
\* sort by timestamp: greatest timestamp, and latest in the caller's order
\* among those tied on it.
LastUserIndices(h) ==
    LET U == {i \in 1..Len(h) : IsUser(h[i])}
        ts(i) == IF "timestamp" \in DOMAIN h[i] THEN h[i]["timestamp"] ELSE <<>>
    IN  {i \in U : \A j \in U \ {i} :
                      \/ StrLess(ts(j), ts(i))
                      \/ (ts(j) = ts(i) /\ j < i)}

\* C5: get_latest_user_message returns the text of the user message that is
\* last after a stable ascending sort by timestamp (a missing timestamp
\* sorting as the empty string), wherever it sits in the caller's array, and
\* returns absent exactly when the history has no user message.
C5_LatestUserMessage ==
    /\ (latest = None) <=> (UserCount(history) = 0)
    /\ UserCount(history) > 0 =>
          \E i \in LastUserIndices(history) :
              latest = Some(IF "message" \in DOMAIN history[i]
                            THEN history[i]["message"] ELSE "")

\* A history whose latest user message by timestamp comes first in the
\* caller's array, tied on its timestamp with a later assistant message and
\* followed by a user message with a smaller timestamp and another text.
C5_Witness ==
    /\ Len(history) = 3
    /\ history[1] = [role |-> "user", message |-> "a", timestamp |-> <<2>>]
    /\ history[2] = [role |-> "assistant", message |-> "b", timestamp |-> <<2>>]
    /\ history[3] = [role |-> "user", message |-> "b", timestamp |-> <<1, 0>>]
    /\ latest = Some("a")

\* The positions where a match of the price pattern begins.
PriceStarts(t) ==
    {i \in 1..Len(t) : t[i] = "$" /\ i < Len(t) /\ IsDigit(t[i + 1])}

\* The value written at a price start: the longest run of digits after the
\* dollar sign, then a point and two digits when they follow it.
PriceAt(t, i) ==
    LET n == CHOOSE k \in 1..Len(t) :
                 /\ i + k <= Len(t)
                 /\ \A d \in 1..k : IsDigit(t[i + d])
                 /\ (i + k = Len(t) \/ ~IsDigit(t[i + k + 1]))
        whole == DigitsVal(SubSeq(t, i + 1, i + n))
        frac == /\ i + n + 3 <= Len(t)
                /\ t[i + n + 1] = "."
                /\ IsDigit(t[i + n + 2])
                /\ IsDigit(t[i + n + 3])
    IN  IF frac
        THEN 100 * whole + 10 * DigitVal(t[i + n + 2]) + DigitVal(t[i + n + 3])
        ELSE 100 * whole

\* C6: extract_price_from_response returns the value of the rightmost
\* dollar amount of the text, however many amounts precede it, and absent
\* exactly when the text holds no dollar amount.
C6_RightmostPrice ==
    LET S == PriceStarts(text)
    IN  /\ (extracted = None) <=> (S = {})
        /\ S # {} =>
              LET i == CHOOSE m \in S : \A k \in S : k <= m
              IN  extracted = Some(PriceAt(text, i))

\* A text with two different dollar amounts, the last one extracted.
C6_Witness ==
    /\ text = <<"$", "4", "0", "$", "4">>
    /\ extracted = Some(400)

----------------------------------------------------------------------------
\* Properties of the handlers.

Done(w) == pc[w] = "done"
IsBargain(w) == request[w].endpoint = "bargain"

\* A body whose product_details is an object with a name and a numeric price.
ValidProductDetails(data) ==
    /\ data.t = "dict"
    /\ "product_details" \in DOMAIN data.d
    /\ data.d["product_details"].t = "dict"
    /\ {"name", "price"} \subseteq DOMAIN data.d["product_details"].d
    /\ data.d["product_details"].d["price"].t = "num"

\* The response-generation call of w was made and failed.
GenerationFailed(w) ==
    /\ calls[w] # <<>>
    /\ Last(calls[w]).kind = "generate"
    /\ ~Last(calls[w]).outcome.ok

MissingProductFields(data) ==
    /\ data.t = "dict"
    /\ \/ "product_details" \notin DOMAIN data.d
       \/ data.d["product_details"].t = "null"
       \/ ~({"name", "price"} \subseteq DOMAIN data.d["product_details"].d)

\* C3: every POST /api/bargain and POST /api/bargain/initial request whose
\* body is missing product_details, or whose product_details is missing name
\* or price, is answered 400 with status 'error', never 200 and never 500.
C3_MissingFieldsAnswered400 ==
    \A w \in Workers :
        (/\ Done(w)
         /\ request[w].endpoint \in {"bargain", "initial"}
         /\ MissingProductFields(request[w].data)) =>
            /\ response[w].http = 400
            /\ response[w].status = "error"

NoUserRole(h) ==
    \A i \in 1..Len(h) : ~("role" \in DOMAIN h[i] /\ h[i]["role"] = "user")

HistoryOfBody(data) ==
    IF "conversation_history" \in DOMAIN data.d
    THEN data.d["conversation_history"] ELSE <<>>

\* C4: a POST /api/bargain request with valid product details and no
\* user-role message in its history (the empty history included) takes the
\* greeting path: step 1, no offered price, language 'English', and the
\* external generator is never invoked for it.
C4_GreetingPathWithoutUserMessage ==
    \A w \in Workers :
        (/\ pc[w] # "idle"
         /\ IsBargain(w)
         /\ ValidProductDetails(request[w].data)
         /\ NoUserRole(HistoryOfBody(request[w].data))) =>
            /\ Done(w)
            /\ calls[w] = <<>>
            /\ trace[w] = <<"greeting_response">>
            /\ response[w].http = 200
            /\ response[w].status = "success"
            /\ response[w].bot_response = [kind |-> "greeting"]
            /\ response[w].step = 1
            /\ response[w].offered_price = None
            /\ response[w].detected_language = English

\* A request with valid product details and a non-empty history of messages
\* that are not the user's has been answered.
C4_Witness ==
    /\ Done(MainWorker) /\ IsBargain(MainWorker)
    /\ ValidProductDetails(request[MainWorker].data)
    /\ Len(HistoryOfBody(request[MainWorker].data)) = 2
    /\ NoUserRole(HistoryOfBody(request[MainWorker].data))
    /\ response[MainWorker].http = 200

\* The states of the orchestrator on the path of a history with a user
\* message, in their order.
OrchestratorOrder ==
    <<"detect_language", "derive_state", "compose_prompt", "invoke_generator",
      "extract_price", "assemble_result">>

IsPrefix(s, t) == Len(s) <= Len(t) /\ s = SubSeq(t, 1, Len(s))

NotFallback(s) == s \notin {"apology", "greeting_response"}

CallKinds(w) == [i \in DOMAIN calls[w] |-> calls[w][i].kind]

Occurs(s, x) == \E i \in 1..Len(s) : s[i] = x

\* C8: within one POST /api/bargain request the steps occur in the order
\* detect language, derive step, compose prompt, invoke generator, extract
\* price, assemble result; the generator is invoked at most once for the
\* language and then at most once for the response, no call is repeated
\* after it failed, and the price is extracted only after a successful
\* response-generation call.
C8_OrchestratorOrder ==
    \A w \in Workers :
        IsBargain(w) =>
            /\ IsPrefix(SelectSeq(trace[w], NotFallback), OrchestratorOrder)
            /\ IsPrefix(CallKinds(w), <<"detect", "generate">>)
            /\ Occurs(trace[w], "detect_language") <=> Occurs(CallKinds(w), "detect")
            /\ Occurs(trace[w], "invoke_generator") <=> Occurs(CallKinds(w), "generate")
            /\ Occurs(trace[w], "extract_price") =>
                  /\ Last(calls[w]).kind = "generate"
                  /\ Last(calls[w]).outcome.ok
            /\ (calls[w] # <<>> /\ Last(calls[w]).kind = "generate") => Done(w)

\* A request went through every step, after a failed language detection.
C8_Witness ==
    /\ Done(MainWorker) /\ IsBargain(MainWorker)
    /\ trace[MainWorker] = OrchestratorOrder
    /\ Len(calls[MainWorker]) = 2
    /\ ~calls[MainWorker][1].outcome.ok
    /\ calls[MainWorker][2].outcome.ok

\* C10: in every successful POST /api/bargain response for a price > 0,
\* whenever offered_price is present, discount_percentage equals
\* (original_price - offered_price) / original_price * 100 for that price
\* (at the two decimals the response reports), and it is 0 only when the
\* formula yields 0 or no price was offered; an extracted $0 included.
C10_DiscountMatchesOfferedPrice ==
    \A w \in Workers :
        (/\ Done(w) /\ IsBargain(w)
         /\ response[w].http = 200
         /\ response[w].original_price > 0
         /\ response[w].offered_price.some) =>
            LET formula ==
                    RoundDiv((response[w].original_price * 100
                                - response[w].offered_price.val) * 100,
                             response[w].original_price)
            IN  /\ response[w].discount_percentage = formula
                /\ response[w].discount_percentage = 0 => formula = 0

\* The outcomes of the generator calls of w, in their order.
Outcomes(w) == [i \in DOMAIN calls[w] |-> calls[w][i].outcome]

\* C7: handling any request, with any outcome, leaves the process-wide
\* configuration (max_discount_percentage = 10, step table 1->2, 2->4, 3->7,
\* 4->10) unchanged, and under any interleaving of concurrent requests the
\* response to a request depends only on its body and on the generator
\* replies it received.
C7_StatelessRequests ==
    /\ max_discount_percentage = 10
    /\ DOMAIN negotiation_steps = 1..4
    /\ <<negotiation_steps[1].discount, negotiation_steps[2].discount,
         negotiation_steps[3].discount, negotiation_steps[4].discount>>
          = <<2, 4, 7, 10>>
    /\ \A w1, w2 \in Workers :
          (/\ Done(w1) /\ Done(w2)
           /\ request[w1] = request[w2]
           /\ Outcomes(w1) = Outcomes(w2)) =>
              /\ response[w1] = response[w2]
              /\ calls[w1] = calls[w2]

\* Two workers answered the same request with the same generator replies,
\* a price offered.
C7_Witness ==
    /\ Done("w1") /\ Done("w2")
    /\ IsBargain("w1")
    /\ request["w1"] = request["w2"]
    /\ Outcomes("w1") = Outcomes("w2")
    /\ Len(calls["w1"]) = 2
    /\ response["w1"].http = 200
    /\ response["w1"].offered_price = Some(440)

=============================================================================
